---- MODULE Spec2Model ----
(***************************************************************************)
(* Model of migrate_framer.py: download_file (the URL -> local path cache  *)
(* and the asset store), process_file (extraction, unescaping, exclusion,  *)
(* substitution, conditional write) and main (the loop over documents).    *)
(*                                                                         *)
(* Text is a sequence of tokens.  Each token stands for a fixed piece of   *)
(* text, so that matching, unescaping, replacing and measuring are         *)
(* computed as the code computes them:                                     *)
(*   "P"  https://framerusercontent.com/      "q"  a double quote          *)
(*   "a" "b"  one ordinary URL character      "&"  an ampersand            *)
(*   "m"  amp;   (so <<"&","m">> is the entity &amp;)                      *)
(*   "S"  searchIndex                          "g"  .png    "w"  .woff     *)
(*   "M"  amp    (what is left of "m" in a sanitized file name)            *)
(*   "U"  ../    "I"  assets/images/   "F"  assets/fonts/                  *)
(*   "O"  assets/others/                                                   *)
(***************************************************************************)
EXTENDS Integers, Sequences, FiniteSets, TLC

\* ---------------------------------------------------------------- text

\* Number of characters a token stands for (len() in the code counts these).
CharLen(t) ==
    CASE t = "P" -> 30
      [] t = "S" -> 11
      [] t = "m" -> 4
      [] t = "g" -> 4
      [] t = "w" -> 5
      [] t = "M" -> 3
      [] t = "U" -> 3
      [] t = "I" -> 14
      [] t = "F" -> 13
      [] t = "O" -> 14
      [] OTHER -> 1

RECURSIVE StrLen(_)
StrLen(s) == IF s = <<>> THEN 0 ELSE CharLen(Head(s)) + StrLen(Tail(s))

\* s[i..] starts with the string p
StartsAt(s, i, p) ==
    /\ i + Len(p) - 1 <= Len(s)
    /\ \A k \in 1..Len(p) : s[i + k - 1] = p[k]

\* str.replace(old, new): leftmost, non-overlapping occurrences, all of them
RECURSIVE ReplaceFrom(_, _, _, _)
ReplaceFrom(s, i, old, new) ==
    IF i > Len(s) THEN <<>>
    ELSE IF StartsAt(s, i, old)
         THEN new \o ReplaceFrom(s, i + Len(old), old, new)
         ELSE <<s[i]>> \o ReplaceFrom(s, i + 1, old, new)

Replace(s, old, new) == ReplaceFrom(s, 1, old, new)

\* str.count(sub): number of non-overlapping occurrences
RECURSIVE CountFrom(_, _, _)
CountFrom(s, i, sub) ==
    IF i > Len(s) THEN 0
    ELSE IF StartsAt(s, i, sub)
         THEN 1 + CountFrom(s, i + Len(sub), sub)
         ELSE CountFrom(s, i + 1, sub)

Count(s, sub) == CountFrom(s, 1, sub)

\* 'searchIndex' in url
Contains(s, t) == \E i \in 1..Len(s) : s[i] = t

\* Characters that end a match: " ' ) and whitespace
Delimiters == {"q"}

\* End of the run of non-delimiter characters that starts at i
RECURSIVE RunEnd(_, _)
RunEnd(s, i) ==
    IF i > Len(s) \/ s[i] \in Delimiters THEN i - 1 ELSE RunEnd(s, i + 1)

\* re.findall(r'https://framerusercontent\.com/[^"\'\)\s]+', content), as a set
RECURSIVE FindAllFrom(_, _)
FindAllFrom(s, i) ==
    IF i > Len(s) THEN {}
    ELSE IF s[i] = "P" /\ RunEnd(s, i + 1) >= i + 1
         THEN {SubSeq(s, i, RunEnd(s, i + 1))} \cup FindAllFrom(s, RunEnd(s, i + 1) + 1)
         ELSE FindAllFrom(s, i + 1)

FindAll(s) == FindAllFrom(s, 1)

\* html.unescape: one left-to-right pass, each entity replaced once
RECURSIVE UnescapeFrom(_, _)
UnescapeFrom(s, i) ==
    IF i > Len(s) THEN <<>>
    ELSE IF s[i] = "&" /\ i < Len(s) /\ s[i + 1] = "m"
         THEN <<"&">> \o UnescapeFrom(s, i + 2)
         ELSE <<s[i]>> \o UnescapeFrom(s, i + 1)

Unescape(s) == UnescapeFrom(s, 1)

\* sorted(matches, key=len, reverse=True): every order of the set that is
\* descending in length (the order of equal-length matches is the set's
\* iteration order, which the code does not control)
SortedOrders(matches) ==
    {f \in [1..Cardinality(matches) -> matches] :
        /\ \A i, j \in 1..Cardinality(matches) : i /= j => f[i] /= f[j]
        /\ \A i, j \in 1..Cardinality(matches) :
              i < j => StrLen(f[i]) >= StrLen(f[j])}

\* ------------------------------------------------------ local naming

\* os.path.basename(urllib.parse.urlparse(url).path): what follows the last '/'
\* (every "P" ends in '/', and no other token holds one)
RECURSIVE Basename(_)
Basename(url) ==
    IF url = <<>> THEN <<>>
    ELSE IF Contains(Tail(url), "P") THEN Basename(Tail(url))
    ELSE IF Head(url) = "P" THEN Tail(url)
    ELSE url

IsDot(t) == t \in {"g", "w"}

\* os.path.splitext(path)[1].lower(): from the last dot of the basename on,
\* unless that dot leads the basename (the tokens hold no upper case)
ExtOf(name) ==
    LET dots == {i \in 1..Len(name) : IsDot(name[i])}
        last == CHOOSE i \in dots : \A j \in dots : j <= i
    IN  IF dots = {} \/ last = 1 THEN <<>> ELSE SubSeq(name, last, Len(name))

get_extension(url) == ExtOf(Basename(url))

ImageExts == {<<"g">>}
FontExts == {<<"w">>}

get_target_dir(ext) ==
    IF ext \in ImageExts THEN "I"
    ELSE IF ext \in FontExts THEN "F"
    ELSE "O"

\* re.sub(r'[^a-zA-Z0-9._-]', '', original_name)
RECURSIVE Sanitize(_)
Sanitize(name) ==
    IF name = <<>> THEN <<>>
    ELSE (CASE Head(name) = "&" -> <<>>
            [] Head(name) = "m" -> <<"M">>
            [] OTHER -> <<Head(name)>>) \o Sanitize(Tail(name))

\* hashlib.md5(url.encode('utf-8')).hexdigest()[:12]: a name that is a
\* function of the whole URL and is different for different URLs
RECURSIVE HexDigest(_)
HexDigest(url) ==
    IF url = <<>> THEN <<>>
    ELSE <<(CASE Head(url) = "P" -> "h0"
              [] Head(url) = "&" -> "h1"
              [] Head(url) = "m" -> "h2"
              [] Head(url) = "S" -> "h3"
              [] Head(url) = "g" -> "h4"
              [] Head(url) = "w" -> "h5"
              [] Head(url) = "a" -> "h6"
              [] OTHER -> "h7")>> \o HexDigest(Tail(url))

MaxNameLen == 50

\* lines 41-58 of download_file: the target path, as <<directory>> \o filename
LocalPath(url) ==
    LET ext == get_extension(url)
        url_hash == HexDigest(url)
        original_name == Sanitize(Basename(url))
        filename == IF original_name = <<>> \/ StrLen(original_name) > MaxNameLen
                    THEN url_hash \o ext
                    ELSE original_name
    IN  <<get_target_dir(ext)>> \o filename

\* ------------------------------------------------------- the world

Docs == {1, 2}

\* Number of directories between the site root and the document:
\* document 1 is index.html, document 2 is Contact/page.html
Depth(d) == IF d = 1 THEN 0 ELSE 1

\* The matched strings the documents are built from
PlainUrl     == <<"P", "a">>
LongerUrl    == <<"P", "a", "b">>
EscapedUrl   == <<"P", "a", "&", "m", "b">>
CanonicalUrl == <<"P", "a", "&", "b">>
IndexUrl     == <<"P", "a", "S">>
ImageUrl     == <<"P", "b", "g">>

UrlPool == {PlainUrl, LongerUrl, EscapedUrl, CanonicalUrl, IndexUrl, ImageUrl}

\* A document that quotes the given references one after the other
RECURSIVE TextOf(_)
TextOf(refs) ==
    IF refs = <<>> THEN <<"q">> ELSE <<"q">> \o Head(refs) \o TextOf(Tail(refs))

\* A file that is not valid UTF-8
Undecodable == <<"x">>

UrlSeq == <<PlainUrl, LongerUrl, EscapedUrl, CanonicalUrl, IndexUrl, ImageUrl>>

\* No reference, one reference, or two (the same twice included)
DocTexts ==
    {TextOf(<<>>), Undecodable} \cup {TextOf(<<u>>) : u \in UrlPool}
        \cup {TextOf(<<UrlSeq[p[1]], UrlSeq[p[2]]>>) :
                 p \in {q \in (1..Len(UrlSeq)) \X (1..Len(UrlSeq)) : q[1] <= q[2]}}

\* The URLs download_file can be called with on these documents
FetchPool == {Unescape(u) : u \in {v \in UrlPool : ~Contains(Unescape(v), "S")}}

\* What the network does with a request for a URL:
\*  "ok"      the response is read and written to the target path
\*  "refused" urlopen raises (network error, non-success response)
\*  "broken"  open(local_path, 'wb') has created the file when read() or
\*            write() raises
Outcomes == {"ok", "refused", "broken"}

NoPath == <<>>
Partial == <<"partial">>
Unrelated == <<"unrelated">>

VARIABLES
    docs,        \* document -> its text on disk
    foreign,     \* documents that resolve to another drive than the assets
    net,         \* URL -> what a request for it does
    store,       \* target path -> content, for the files that exist
    url_to_local_path,
    pc,          \* where main is: "start", "loop", "done"
    html_files,  \* the documents main still has to process
    run,         \* the number of this run of the tool
    log,         \* document -> what process_file did with it in this run
    before_run   \* the documents and the files as this run found them

vars == <<docs, foreign, net, store, url_to_local_path, pc, html_files, run,
          log, before_run>>

Outcome(url) == IF url \in DOMAIN net THEN net[url] ELSE "ok"

\* ---------------------------------------------------- download_file

\* download_file without the test of line 66: every uncached URL is requested
download_file_always_fetches(url, cache, files) ==
    LET local_path == LocalPath(url)
        result(ret, c, f, cached) ==
            [ret |-> ret, cache |-> c, files |-> f, cached |-> cached,
             existed |-> local_path \in DOMAIN files, fetched |-> ~cached,
             path |-> local_path]
    IN  IF url \in DOMAIN cache
        THEN result(cache[url], cache, files, TRUE)
        ELSE CASE Outcome(url) = "ok" ->
                    result(local_path, (url :> local_path) @@ cache,
                           (local_path :> url) @@ files, FALSE)
               [] Outcome(url) = "refused" ->
                    result(NoPath, cache, files, FALSE)
               [] OTHER ->
                    result(NoPath, cache, (local_path :> Partial) @@ files, FALSE)

\* The state of the world after download_file(url), and what it returned
download_file(url, cache, files) ==
    LET local_path == LocalPath(url)
        exists == local_path \in DOMAIN files
        result(ret, c, f, cached, fetched) ==
            [ret |-> ret, cache |-> c, files |-> f, cached |-> cached,
             existed |-> exists, fetched |-> fetched, path |-> local_path]
    IN  IF url \in DOMAIN cache
        THEN result(cache[url], cache, files, TRUE, FALSE)
        ELSE IF ~exists
        THEN CASE Outcome(url) = "ok" ->
                    result(local_path, (url :> local_path) @@ cache,
                           (local_path :> url) @@ files, FALSE, TRUE)
               [] Outcome(url) = "refused" ->
                    result(NoPath, cache, files, FALSE, TRUE)
               [] OTHER ->
                    result(NoPath, cache, (local_path :> Partial) @@ files,
                           FALSE, TRUE)
        ELSE result(local_path, (url :> local_path) @@ cache, files, FALSE, FALSE)

\* ----------------------------------------------------- process_file

\* os.path.relpath(abs_asset_path, abs_file_path.parent) with '/' separators
RECURSIVE Ups(_)
Ups(n) == IF n = 0 THEN <<>> ELSE <<"U">> \o Ups(n - 1)

RelPath(local_path, d) == Ups(Depth(d)) \o local_path

\* The value of a set of one element: binds a result that is used several
\* times, so that it is computed once
The(S) == CHOOSE x \in S : TRUE

\* The turn of the loop for the match m once download_file has returned r
\* (no call is made for an excluded match: called is FALSE and r is unused)
Turn(acc, m, d, url, called, r) ==
    LET kind == IF ~called THEN "excluded"
                ELSE IF r.ret = NoPath THEN "failed"
                ELSE IF d \in foreign THEN "unrelatable"
                ELSE "replaced"
        text == IF kind = "replaced"
                THEN Replace(acc.new_content, url, RelPath(r.ret, d))
                ELSE acc.new_content
        path == IF called THEN r.path ELSE NoPath
        files == IF called THEN r.files ELSE acc.files
    IN  [new_content |-> text,
         cache |-> IF called THEN r.cache ELSE acc.cache,
         files |-> files,
         turns |-> Append(acc.turns,
            [match |-> m, url |-> url, kind |-> kind,
             before |-> acc.new_content, after |-> text,
             ret |-> IF called THEN r.ret ELSE NoPath,
             cached |-> called /\ r.cached,
             existed |-> called /\ r.existed,
             fetched |-> called /\ r.fetched,
             path |-> path,
             file_before |-> IF path \in DOMAIN acc.files
                             THEN acc.files[path] ELSE NoPath,
             file_after |-> IF path \in DOMAIN files
                            THEN files[path] ELSE NoPath])]

\* One turn of the loop of lines 115-144 for the match m of document d.
\* acc holds new_content, the cache, the files and the record of the turns.
LoopBody(acc, m, d) ==
    LET url == Unescape(m)
    IN  IF Contains(url, "S")
        THEN Turn(acc, m, d, url, FALSE, acc)
        ELSE The({Turn(acc, m, d, url, TRUE, r) :
                     r \in {download_file(url, acc.cache, acc.files)}})

RECURSIVE Loop(_, _, _)
Loop(acc, sorted_matches, d) ==
    IF sorted_matches = <<>> THEN acc
    ELSE The({Loop(next, Tail(sorted_matches), d) :
                 next \in {LoopBody(acc, Head(sorted_matches), d)}})

\* A write whenever the document had a match, changed or not
ShouldWriteOnAnyMatch(content, new_content, turns) == turns /= <<>>

\* if new_content != content
ShouldWrite(content, new_content, turns) == new_content /= content

\* Lines 146-151, after the loop ended in the state end
Finish(content, end) ==
    LET wrote == ShouldWrite(content, end.new_content, end.turns)
    IN  [text |-> IF wrote THEN end.new_content ELSE content,
         cache |-> end.cache, files |-> end.files,
         entry |-> [decoded |-> TRUE, content |-> content,
                    new_content |-> end.new_content,
                    turns |-> end.turns, wrote |-> wrote]]

\* process_file(d) on a decodable document, its matches taken in the order
\* sorted_matches: the text left on disk, the cache, the files, the record
process_file(d, content, sorted_matches, cache, files) ==
    The({Finish(content, end) :
            end \in {Loop([new_content |-> content, cache |-> cache,
                           files |-> files, turns |-> <<>>],
                          sorted_matches, d)}})

Decodable(text) == ~Contains(text, "x")

\* ------------------------------------------------------------- main

MaxRuns == 2

\* list(root_dir.rglob('*.html')): the documents, in some order
Orders == {f \in [1..Cardinality(Docs) -> Docs] :
              \A i, j \in 1..Cardinality(Docs) : i /= j => f[i] /= f[j]}

\* The network: every request succeeds, or the requests for one URL fail
NetChoices ==
    {[u \in FetchPool |-> IF u = bad THEN o ELSE "ok"] :
        bad \in FetchPool, o \in Outcomes}

\* Every document is on the drive of the assets, or document 2 is a link to
\* a file on another drive
ForeignChoices == {{}, {2}}

\* The asset directories are empty, or hold a file the tool did not write
StoreChoices == {<<>>, (LocalPath(ImageUrl) :> Unrelated)}

Init ==
    /\ docs \in [Docs -> DocTexts]
    /\ foreign \in ForeignChoices
    /\ net \in NetChoices
    /\ store \in StoreChoices
    /\ url_to_local_path = <<>>
    /\ pc = "start"
    /\ html_files = <<>>
    /\ run = 1
    /\ log = <<>>
    /\ before_run = [docs |-> docs, store |-> store]

\* lines 154-155
Enumerate ==
    /\ pc = "start"
    /\ html_files' \in Orders
    /\ pc' = "loop"
    /\ UNCHANGED <<docs, foreign, net, store, url_to_local_path, run, log, before_run>>

\* process_file without the handler of lines 93-95: the error ends main
UndecodableRaises ==
    /\ pc = "loop"
    /\ html_files /= <<>>
    /\ ~Decodable(docs[Head(html_files)])
    /\ pc' = "crashed"
    /\ UNCHANGED <<docs, foreign, net, store, url_to_local_path, html_files, run,
                   log, before_run>>

\* lines 157-158, process_file on a document that is not UTF-8 (lines 93-95)
SkipUndecodable ==
    /\ pc = "loop"
    /\ html_files /= <<>>
    /\ ~Decodable(docs[Head(html_files)])
    /\ log' = (Head(html_files) :>
                  [decoded |-> FALSE, content |-> docs[Head(html_files)],
                   new_content |-> docs[Head(html_files)],
                   turns |-> <<>>, wrote |-> FALSE]) @@ log
    /\ html_files' = Tail(html_files)
    /\ UNCHANGED <<docs, foreign, net, store, url_to_local_path, pc, run, before_run>>

\* lines 157-158, process_file on a document that decodes (lines 97-151)
Process ==
    /\ pc = "loop"
    /\ html_files /= <<>>
    /\ Decodable(docs[Head(html_files)])
    /\ \E sorted_matches \in SortedOrders(FindAll(docs[Head(html_files)])) :
          \E r \in {process_file(Head(html_files), docs[Head(html_files)],
                                sorted_matches, url_to_local_path, store)} :
              /\ docs' = [docs EXCEPT ![Head(html_files)] = r.text]
              /\ url_to_local_path' = r.cache
              /\ store' = r.files
              /\ log' = (Head(html_files) :> r.entry) @@ log
    /\ html_files' = Tail(html_files)
    /\ UNCHANGED <<foreign, net, pc, run, before_run>>

\* line 160
Complete ==
    /\ pc = "loop"
    /\ html_files = <<>>
    /\ pc' = "done"
    /\ UNCHANGED <<docs, foreign, net, store, url_to_local_path, html_files, run,
                   log, before_run>>

\* The tool is started again on the tree and the assets the last run left:
\* a new process, so the module-level cache of line 19 is empty again
RunAgain ==
    /\ pc = "done"
    /\ run < MaxRuns
    /\ run' = run + 1
    /\ url_to_local_path' = <<>>
    /\ log' = <<>>
    /\ before_run' = [docs |-> docs, store |-> store]
    /\ pc' = "start"
    /\ UNCHANGED <<docs, foreign, net, store, html_files>>

Next == Enumerate \/ SkipUndecodable \/ Process \/ Complete \/ RunAgain

Spec == Init /\ [][Next]_vars

\* The runs whose completion is checked start from fewer trees: a document
\* that does not decode, one without a reference, one with one reference and
\* one with two; the asset directories are empty; the requests for PlainUrl
\* or for LongerUrl may fail
LiveTexts ==
    {Undecodable, TextOf(<<>>), TextOf(<<PlainUrl>>),
     TextOf(<<PlainUrl, LongerUrl>>)}

LiveInit ==
    /\ Init
    /\ docs \in [Docs -> LiveTexts]
    /\ store = <<>>
    /\ \A u \in FetchPool \ {PlainUrl, LongerUrl} : net[u] = "ok"

\* A run is sequential code that waits for nothing but its own I/O: a step
\* that can be taken is taken
FairSpec == LiveInit /\ [][Next]_vars /\ WF_vars(Next)

\* main() run to its end over the documents in the order html, from the
\* given tree and files with an empty cache: the tree it leaves
RECURSIVE main(_, _, _, _)
main(tree, cache, files, html) ==
    IF html = <<>> THEN tree
    ELSE LET d == Head(html)
             r == process_file(d, tree[d],
                              CHOOSE o \in SortedOrders(FindAll(tree[d])) : TRUE,
                              cache, files)
         IN  IF Decodable(tree[d])
             THEN main([tree EXCEPT ![d] = r.text], r.cache, r.files, Tail(html))
             ELSE main(tree, cache, files, Tail(html))

\* ----------------------------------------------------------- claims

\* The turns of the loop that process_file has taken in this run
Turns == UNION {{<<d, i>> : i \in 1..Len(log[d].turns)} : d \in DOMAIN log}
TurnAt(t) == log[t[1]].turns[t[2]]
Looked == {t \in Turns : TurnAt(t).kind /= "excluded"}

\* C1: within one run at most one network request is made for a URL
C1_OneFetchPerUrl ==
    \A t1, t2 \in Looked :
        (/\ TurnAt(t1).fetched /\ TurnAt(t2).fetched
         /\ TurnAt(t1).url = TurnAt(t2).url) => t1 = t2

\* C2: a run of the tool on the tree and the assets a finished run left
\* overwrites no document and leaves every text as it found it
C2_SecondRunIsFixedPoint ==
    (run > 1 /\ pc = "done") =>
        /\ docs = before_run.docs
        /\ \A d \in DOMAIN log : ~log[d].wrote

\* C3: a match that holds the exclusion marker is never handed to
\* download_file, and each of its occurrences is in the text process_file ends with
C3_ExcludedUntouched ==
    \A d \in DOMAIN log : \A m \in FindAll(log[d].content) :
        Contains(m, "S") =>
            /\ \A t \in Looked : TurnAt(t).url /= m
            /\ Count(log[d].new_content, m) = Count(log[d].content, m)
            /\ Count(docs[d], m) = Count(log[d].content, m)

\* C4: a URL whose materialization failed keeps every occurrence of its
\* matched string in the document, and no lookup of it in the same run
\* returns a path
C4_FailureKept ==
    \A t \in Looked :
        TurnAt(t).kind = "failed" =>
            /\ Count(log[t[1]].new_content, TurnAt(t).match)
                  = Count(log[t[1]].content, TurnAt(t).match)
            /\ \A t2 \in Looked :
                  TurnAt(t2).url = TurnAt(t).url => TurnAt(t2).ret = NoPath

\* C5: a match whose canonical form was materialized has no literal
\* occurrence left in the text process_file ends with (documents whose path
\* cannot be made relative set aside)
C5_RewriteComplete ==
    \A t \in Looked :
        (TurnAt(t).ret /= NoPath /\ t[1] \notin foreign) =>
            Count(log[t[1]].new_content, TurnAt(t).match) = 0

\* C6: process_file overwrites a document exactly when the text after the
\* substitutions differs from the text read; a document without matches, or
\* whose matches were all excluded or all failed, or that does not decode,
\* is not written
C6_ConditionalWrite ==
    \A d \in DOMAIN log :
        /\ log[d].wrote <=> (log[d].new_content /= log[d].content)
        /\ docs[d] = IF log[d].wrote THEN log[d].new_content ELSE log[d].content
        /\ (\A i \in 1..Len(log[d].turns) :
               log[d].turns[i].kind \in {"excluded", "failed"}) =>
              (~log[d].wrote /\ docs[d] = log[d].content)

C6_Witness ==
    /\ pc = "done"
    /\ \E d \in DOMAIN log : log[d].wrote
    /\ \E d \in DOMAIN log :
          /\ log[d].turns /= <<>>
          /\ ~log[d].wrote
          /\ \E i \in 1..Len(log[d].turns) : log[d].turns[i].kind = "failed"

\* Every document was handed to process_file, and process_file took a turn
\* of its loop for every match of every document it could read
AllProcessed ==
    /\ DOMAIN log = Docs
    /\ \A d \in Docs :
          log[d].decoded =>
              {log[d].turns[i].match : i \in 1..Len(log[d].turns)}
                  = FindAll(log[d].content)

\* C7: a run that starts reaches completion with every document processed and
\* every match visited, whatever fails to decode, to download or to relativize
C7_RunCompletes == (pc = "start") ~> (pc = "done" /\ AllProcessed)

\* A finished run in which one document did not decode and the other, whose
\* path cannot be made relative, had a download fail before a later match
C7_Witness ==
    /\ pc = "done"
    /\ AllProcessed
    /\ \E d \in Docs : ~log[d].decoded
    /\ \E t, t2 \in Looked :
          /\ TurnAt(t).kind = "failed"
          /\ t2[1] = t[1] /\ t2[2] > t[2]
          /\ TurnAt(t2).kind = "unrelatable"

\* C8: the substitution made for a match leaves every occurrence of every
\* longer match of the document as it was
C8_LongerMatchIntact ==
    \A t \in Turns : \A m \in FindAll(log[t[1]].content) :
        StrLen(m) > StrLen(TurnAt(t).match) =>
            Count(TurnAt(t).after, m) >= Count(TurnAt(t).before, m)

\* C9: download_file for an uncached URL whose target path holds a file makes
\* no request, leaves the file as it is, caches and returns the path; a file
\* is written only at a path that held none
C9_ExistingFileReused ==
    \A t \in Looked :
        /\ (~TurnAt(t).cached /\ TurnAt(t).existed) =>
              /\ ~TurnAt(t).fetched
              /\ TurnAt(t).file_after = TurnAt(t).file_before
              /\ TurnAt(t).ret = LocalPath(TurnAt(t).url)
              /\ TurnAt(t).url \in DOMAIN url_to_local_path
              /\ url_to_local_path[TurnAt(t).url] = LocalPath(TurnAt(t).url)
        /\ TurnAt(t).file_after /= TurnAt(t).file_before => ~TurnAt(t).existed

C9_Witness ==
    \E t \in Looked :
        /\ ~TurnAt(t).cached
        /\ TurnAt(t).existed
        /\ TurnAt(t).file_before = Unrelated
        /\ store[LocalPath(TurnAt(t).url)] = Unrelated

\* C10: the tree a run leaves is the tree it leaves for every order of the
\* documents
C10_OrderIndependent ==
    pc = "done" =>
        \A o \in Orders :
            docs = main(before_run.docs, <<>>, before_run.store, o)

====
